---- MODULE Spec2Model ----
(***************************************************************************)
(* Model of cargo-heaptrack (src/src/main.rs): target resolution           *)
(* (find_unique_target), build command construction (build), workload      *)
(* extraction (workload) and the invocation driver (main, run_heaptrack).  *)
(*                                                                         *)
(* Option<T> is modelled as a sequence of length at most one:              *)
(*   None = <<>>, Some(x) = <<x>>.                                         *)
(* Vec<T> and paths (as lists of components) are sequences.                *)
(***************************************************************************)
EXTENDS Naturals, Sequences, FiniteSets

VARIABLES
    pc,         \* position in main
    opt,        \* the Opts value main holds (<<>> before parsing)
    kind,       \* main's `kind`
    artifacts,  \* main's `artifacts`
    command,    \* main's `workload`
    spawned,    \* command lines of the subprocesses launched so far
    stderr,     \* diagnostics printed so far
    error,      \* the error main returned ("" if none)
    phases,     \* history: the steps of the invocation that have run
    exits,      \* history: how the build and profiler subprocesses ended
    call,       \* the arguments and environment of the call under study
    ret         \* its result

vars ==
    <<pc, opt, kind, artifacts, command, spawned, stderr, error, phases, exits,
      call, ret>>

None == <<>>

Some(x) == <<x>>

IsSome(o) == o # <<>>

(***************************************************************************)
(* Bounds of the model.                                                    *)
(***************************************************************************)
MaxTargets == 2

MaxArtifacts == 2

MaxArgs == 2

MaxBuiltArtifacts == 1

(***************************************************************************)
(* Sequences over S of length at most n, and those without repetition.     *)
(***************************************************************************)
SeqUpTo(S, n) == UNION {[1..m -> S] : m \in 0..n}

DistinctSeqUpTo(S, n) ==
    {s \in SeqUpTo(S, n) : \A i, j \in DOMAIN s : i # j => s[i] # s[j]}

(***************************************************************************)
(* Project metadata as returned by `cargo metadata --no-deps`.             *)
(***************************************************************************)
TargetNames == {"a", "b"}

PackageNames == {"p", "q"}

TargetKinds == {<<"bin">>, <<"lib">>}

Targets == [name : TargetNames, kind : TargetKinds]

\* manifest paths of packages: one below the crate root <<"w">>, one outside it
PackageManifests == {<<"w", "Cargo.toml">>, <<"o", "Cargo.toml">>}

\* cargo rejects two targets of one package with the same kind and name
Packages ==
    [name : PackageNames,
     manifest_path : PackageManifests,
     default_run : {None, Some("a")},
     targets : DistinctSeqUpTo(Targets, MaxTargets)]

\* `cargo metadata` lists the workspace members, whose names are distinct,
\* sorted by package id
NameRank(n) == IF n = "p" THEN 1 ELSE 2

Metadatas ==
    {m \in SeqUpTo(Packages, Cardinality(PackageNames)) :
        \A i, j \in DOMAIN m : i < j => NameRank(m[i].name) < NameRank(m[j].name)}

(***************************************************************************)
(* find_crate_root                                                         *)
(***************************************************************************)
ExistingDirs == {<<"w">>, <<"o">>}

\* Path::parent: None for a path without components
Parent(path) ==
    IF Len(path) = 0 THEN None ELSE Some(SubSeq(path, 1, Len(path) - 1))

\* Path::starts_with: component-wise prefix
StartsWith(path, base) ==
    /\ Len(base) <= Len(path)
    /\ SubSeq(path, 1, Len(base)) = base

\* cwd_root: the ancestor of the working directory holding Cargo.toml, if any
find_crate_root(manifest_path, cwd_root) ==
    IF IsSome(manifest_path)
    THEN LET parent == Parent(manifest_path[1]) IN
         IF parent = None
         THEN [ok |-> FALSE, err |-> "ManifestPathNoParent", root |-> <<>>]
         ELSE IF parent[1] \in ExistingDirs
              THEN [ok |-> TRUE, err |-> "", root |-> parent[1]]
              ELSE [ok |-> FALSE, err |-> "InvalidManifestPath", root |-> <<>>]
    ELSE IF IsSome(cwd_root)
         THEN [ok |-> TRUE, err |-> "", root |-> cwd_root[1]]
         ELSE [ok |-> FALSE, err |-> "ManifestNotFound", root |-> <<>>]

(***************************************************************************)
(* find_unique_target                                                      *)
(***************************************************************************)
\* t.kind.iter().any(|s| kind.contains(&s.as_str()))
KindMatchesAlways(tkind, k) == TRUE

KindMatches(tkind, k) ==
    \E i \in DOMAIN tkind : \E j \in DOMAIN k : tkind[i] = k[j]

\* match &default_run { Some(name) if name != &t.name => return None, .. }
DefaultRunIgnored(default_run, t) == TRUE

DefaultRunKeeps(default_run, t) ==
    ~(IsSome(default_run) /\ default_run[1] # t.name)

\* match target_name { Some(name) if name != t.name => return None, .. }
TargetNameKeeps(target_name, t) ==
    ~(IsSome(target_name) /\ target_name[1] # t.name)

\* the filter_map closure over one package's targets
PackageTargets(p, k, target_name) ==
    LET Keep(t) == /\ KindMatches(t.kind, k)
                   /\ DefaultRunKeeps(p.default_run, t)
                   /\ TargetNameKeeps(target_name, t)
        kept == SelectSeq(p.targets, Keep)
    IN [i \in DOMAIN kept |->
           [package |-> p.name, target |-> kept[i].name, kind |-> kept[i].kind]]

\* the filter on packages: by name when pkg is given, else by crate root
InScope(p, pkg, crate_root) ==
    IF IsSome(pkg) THEN pkg[1] = p.name
    ELSE StartsWith(p.manifest_path, crate_root)

RECURSIVE FlatMapTargets(_, _, _)
FlatMapTargets(packages, k, target_name) ==
    IF packages = <<>> THEN <<>>
    ELSE PackageTargets(Head(packages), k, target_name)
         \o FlatMapTargets(Tail(packages), k, target_name)

\* if num_packages != 1 || !is_default { eprintln!(...) }
PrintsNoticeUnlessDefault(num_packages, is_default) == ~is_default

PrintsNotice(num_packages, is_default) == num_packages # 1 \/ ~is_default

NoResult ==
    [status |-> "", target |-> None, candidates |-> <<>>, notice |-> FALSE,
     metadata_queried |-> FALSE]

\* let crate_root = find_crate_root(manifest_path)?; comes before
\* metadata_command.exec()
CrateRootFailedAfterQuery(err) ==
    [NoResult EXCEPT !.status = err, !.metadata_queried = TRUE]

CrateRootFailed(err) == [NoResult EXCEPT !.status = err]

\* env: cwd_root (Option<path>), metadata_ok, metadata
find_unique_target(k, pkg, manifest_path, target_name, env) ==
    LET crate_root == find_crate_root(manifest_path, env.cwd_root)
        packages == SelectSeq(env.metadata,
                              LAMBDA p : InScope(p, pkg, crate_root.root))
        num_packages == Len(packages)
        is_default == \E i \in DOMAIN packages : IsSome(packages[i].default_run)
        targets == FlatMapTargets(packages, k, target_name)
    IN
    IF ~crate_root.ok
    THEN CrateRootFailed(crate_root.err)
    ELSE IF ~env.metadata_ok
    THEN [NoResult EXCEPT !.status = "MetadataUnavailable",
                          !.metadata_queried = TRUE]
    ELSE IF packages = <<>>
    THEN [NoResult EXCEPT !.status = IF IsSome(pkg) THEN "UnknownPackage"
                                     ELSE "NoPackageBelowRoot",
                          !.metadata_queried = TRUE]
    ELSE IF Len(targets) = 1
    THEN [status |-> "Ok", target |-> Some(targets[1]), candidates |-> targets,
          notice |-> PrintsNotice(num_packages, is_default),
          metadata_queried |-> TRUE]
    ELSE IF Len(targets) = 0
    THEN [NoResult EXCEPT !.status = "NoTarget", !.metadata_queried = TRUE]
    ELSE [NoResult EXCEPT !.status = "AmbiguousTarget", !.candidates = targets,
                          !.metadata_queried = TRUE]

(***************************************************************************)
(* Opts (the parsed command line) and build artifacts.                     *)
(***************************************************************************)
OptNames == {None, Some("a")}

\* the values of --bin, --example, --test, --bench and --unit-test [<name>]
Selections ==
    [bin : OptNames, example : OptNames, test : OptNames, bench : OptNames,
     unit_test : {None, Some(None), Some(Some("a"))}]

NumSelected(o) ==
    Cardinality({f \in {"bin", "example", "test", "bench", "unit_test"} :
                    IsSome(o[f])})

\* group = "exec-args": clap rejects a command line naming two members
GroupNeverConflicts(o) == FALSE

GroupConflict(o) == NumSelected(o) > 1

HeaptrackOptsDefault == [output |-> None, raw |-> TRUE]

\* PathBuf -> OsStr when passed as a command line argument
PathString(path) ==
    IF path = <<>> THEN ""
    ELSE IF path = <<"w", "Cargo.toml">> THEN "w/Cargo.toml"
    ELSE IF path = <<"nodir", "Cargo.toml">> THEN "nodir/Cargo.toml"
    ELSE "o/Cargo.toml"

ExePaths == <<"/t/e1", "/t/e2", "/t/e3", "/t/e4">>

DebugLevels == {"None", "Full"}

ArtifactKinds == {<<"bin">>, <<"lib">>}

ArtifactShapes ==
    [name : TargetNames, kind : ArtifactKinds, has_exe : BOOLEAN,
     debuginfo : DebugLevels]

\* the i-th artifact of a build writes its own executable, if it has one
MkArtifact(shape, i) ==
    [target |-> [name |-> shape.name, kind |-> shape.kind],
     executable |-> IF shape.has_exe THEN Some(ExePaths[i]) ELSE None,
     debuginfo |-> shape.debuginfo]

ArtifactLists(n) ==
    UNION {{[i \in 1..m |-> MkArtifact(f[i], i)] : f \in [1..m -> ArtifactShapes]} :
              m \in 0..n}

(***************************************************************************)
(* build                                                                   *)
(***************************************************************************)
\* lines 106-112
Subcommand(o) ==
    IF ~o.dev /\ IsSome(o.bench) THEN <<"bench", "--no-run">>
    ELSE IF IsSome(o.unit_test) THEN <<"test", "--no-run">>
    ELSE <<"build">>

\* lines 114-119
ProfileArgsReleaseUnlessDev(o) ==
    IF IsSome(o.profile) THEN <<"--profile", o.profile[1]>>
    ELSE IF ~o.dev THEN <<"--release">>
    ELSE <<>>

ProfileArgs(o) ==
    IF IsSome(o.profile) THEN <<"--profile", o.profile[1]>>
    ELSE IF ~o.dev /\ ~IsSome(o.bench) THEN <<"--release">>
    ELSE <<>>

\* if let Some(ref v) = field { cmd.arg(flag); cmd.arg(v); }
FlagArg(flag, field) == IF IsSome(field) THEN <<flag, field[1]>> ELSE <<>>

\* lines 146-152
UnitTestArgs(o, k) ==
    IF IsSome(o.unit_test) /\ IsSome(o.unit_test[1])
    THEN IF \E i \in DOMAIN k : k[i] = "lib"
         THEN <<"--lib">>
         ELSE <<"--bin", o.unit_test[1][1]>>
    ELSE <<>>

BuildArgs(o, k) ==
    Subcommand(o)
    \o ProfileArgs(o)
    \o FlagArg("--package", o.package)
    \o FlagArg("--bin", o.bin)
    \o FlagArg("--example", o.example)
    \o FlagArg("--test", o.test)
    \o FlagArg("--bench", o.bench)
    \o UnitTestArgs(o, k)
    \o (IF IsSome(o.manifest_path)
        THEN <<"--manifest-path", PathString(o.manifest_path[1])>> ELSE <<>>)
    \o FlagArg("--features", o.features)
    \o (IF o.no_default_features THEN <<"--no-default-features">> ELSE <<>>)
    \o <<"--message-format=json-render-diagnostics">>

\* if !status.success() { bail!("cargo build failed") }
CargoStatusIgnored(status) == TRUE

CargoSucceeded(status) == status = "success"

\* Message::parse_stream(..).filter_map(..).collect()
RECURSIVE ParseStream(_)
ParseStream(stdout) ==
    IF stdout = <<>> THEN [ok |-> TRUE, artifacts |-> <<>>]
    ELSE LET m == Head(stdout)
             rest == ParseStream(Tail(stdout))
         IN IF m.reason = "malformed" THEN [ok |-> FALSE, artifacts |-> <<>>]
            ELSE IF ~rest.ok THEN rest
            ELSE IF m.reason = "compiler-artifact"
                 THEN [ok |-> TRUE, artifacts |-> <<m.artifact>> \o rest.artifacts]
                 ELSE rest

\* env: status ("spawn_failed", "failure", "success"), stdout (messages)
build(o, k, env) ==
    LET args == BuildArgs(o, k)
        parsed == ParseStream(env.stdout)
    IN IF env.status = "spawn_failed"
       THEN [status |-> "BuildLaunchFailed", args |-> args, artifacts |-> <<>>]
       ELSE IF ~CargoSucceeded(env.status)
       THEN [status |-> "BuildFailed", args |-> args, artifacts |-> <<>>]
       ELSE IF ~parsed.ok
       THEN [status |-> "BuildOutputParseError", args |-> args, artifacts |-> <<>>]
       ELSE [status |-> "Ok", args |-> args, artifacts |-> parsed.artifacts]

(***************************************************************************)
(* workload                                                                *)
(***************************************************************************)
\* the match on opt, lines 193-205: (kind, target) of the first option set
WorkloadSelection(o) ==
    IF IsSome(o.bin) THEN Some([kind |-> <<"bin">>, target |-> o.bin[1]])
    ELSE IF IsSome(o.example)
    THEN Some([kind |-> <<"example">>, target |-> o.example[1]])
    ELSE IF IsSome(o.test) THEN Some([kind |-> <<"test">>, target |-> o.test[1]])
    ELSE IF IsSome(o.bench) THEN Some([kind |-> <<"bench">>, target |-> o.bench[1]])
    ELSE IF IsSome(o.unit_test) /\ IsSome(o.unit_test[1])
    THEN Some([kind |-> <<"lib", "bin">>, target |-> o.unit_test[1][1]])
    ELSE None

\* the filter inside find_map, lines 211-216
ArtifactMatches(a, sel) ==
    /\ IsSome(a.executable)
    /\ a.target.name = sel.target
    /\ \E i \in DOMAIN a.target.kind : \E j \in DOMAIN sel.kind :
           a.target.kind[i] = sel.kind[j]

\* find_map returns the first element the closure accepts
LastOf(S) == CHOOSE i \in S : \A j \in S : j <= i

FirstOf(S) == CHOOSE i \in S : \A j \in S : i <= j

\* lines 230-240
AdvisoryProfileRelease(o) == "release"

AdvisoryProfile(o) ==
    LET unit_test_name == IF IsSome(o.unit_test) THEN o.unit_test[1] ELSE None
        chosen == IF IsSome(o.example) THEN o.example
                  ELSE IF IsSome(o.bin) THEN o.bin
                  ELSE unit_test_name
    IN IF IsSome(chosen) THEN "release" ELSE "bench"

WorkloadError(status, listing) ==
    [status |-> status, command |-> <<>>, advisory |-> None, listing |-> listing]

workload(o, arts) ==
    LET sel == WorkloadSelection(o)
        matching == {i \in DOMAIN arts : ArtifactMatches(arts[i], sel[1])}
        found == arts[FirstOf(matching)]
    IN IF \A i \in DOMAIN arts : arts[i].executable = None
       THEN WorkloadError("NoExecutableProduced", <<>>)
       ELSE IF sel = None
       THEN WorkloadError("NoSelectionCriteria", <<>>)
       ELSE IF matching = {}
       THEN WorkloadError("TargetArtifactNotFound",
                          [i \in DOMAIN arts |->
                              <<arts[i].target.kind, arts[i].target.name>>])
       ELSE [status |-> "Ok",
             command |-> <<found.executable[1]>> \o o.trailing_arguments,
             advisory |-> IF ~o.dev /\ found.debuginfo = "None"
                          THEN Some(AdvisoryProfile(o)) ELSE None,
             listing |-> <<>>]

(***************************************************************************)
(* run_heaptrack                                                           *)
(***************************************************************************)
HeaptrackArgs(target, args, opts) ==
    (IF IsSome(opts.output) THEN <<"--output", opts.output[1]>> ELSE <<>>)
    \o (IF opts.raw THEN <<"--raw">> ELSE <<>>)
    \o <<target>>
    \o args

\* outcome: "spawn_failed", or the exit status "failure" / "success"
run_heaptrack(outcome) ==
    IF outcome = "spawn_failed" THEN "ProfilerLaunchFailed"
    ELSE IF outcome # "success" THEN "ProfilerFailed"
    ELSE ""

(***************************************************************************)
(* Defaults of the variables a specification does not use.                 *)
(***************************************************************************)
Idle ==
    /\ pc = "idle"
    /\ opt = <<>>
    /\ kind = <<>>
    /\ artifacts = <<>>
    /\ command = <<>>
    /\ spawned = <<>>
    /\ stderr = <<>>
    /\ error = ""
    /\ phases = <<>>
    /\ exits = [cargo |-> "none", heaptrack |-> "none"]

IdleUnchanged ==
    UNCHANGED <<pc, opt, kind, artifacts, command, spawned, stderr, error,
                phases, exits>>

(***************************************************************************)
(* Specification of find_unique_target as a function of its arguments and  *)
(* of the environment (working directory, metadata query).                 *)
(***************************************************************************)
\* the two kind slices main passes
KindArgs == {<<"bin">>, <<"bin", "lib">>}

\* (manifest_path argument, ancestor of the working directory with a manifest)
RootCases ==
    {<<None, None>>,
     <<None, Some(<<"w">>)>>,
     <<Some(<<"w", "Cargo.toml">>), None>>,
     <<Some(<<"nodir", "Cargo.toml">>), Some(<<"w">>)>>,
     <<Some(<<>>), Some(<<"w">>)>>}

\* the metadata query is only reached, and its answer only read, once the
\* crate root is found
ResolveEnvs(manifest_path, cwd_root) ==
    IF find_crate_root(manifest_path, cwd_root).ok
    THEN [cwd_root : {cwd_root}, metadata_ok : {TRUE}, metadata : Metadatas]
         \cup [cwd_root : {cwd_root}, metadata_ok : {FALSE}, metadata : {<<>>}]
    ELSE [cwd_root : {cwd_root}, metadata_ok : {TRUE}, metadata : {<<>>}]

ResolveCalls ==
    UNION {[fn : {"find_unique_target"},
            kind : KindArgs,
            pkg : {None, Some("p")},
            manifest_path : {rc[1]},
            target_name : {None, Some("a"), Some("b")},
            env : ResolveEnvs(rc[1], rc[2])] : rc \in RootCases}

InitResolve ==
    /\ Idle
    /\ call \in ResolveCalls
    /\ ret = <<>>

CallFindUniqueTarget ==
    /\ call.fn = "find_unique_target"
    /\ ret = <<>>
    /\ ret' = Some(find_unique_target(call.kind, call.pkg, call.manifest_path,
                                      call.target_name, call.env))
    /\ UNCHANGED call
    /\ IdleUnchanged

NextResolve == CallFindUniqueTarget

SpecResolve == InitResolve /\ [][NextResolve]_vars

(***************************************************************************)
(* Properties of find_unique_target (checked under SpecResolve).           *)
(* They restate the filters directly on the metadata of the call, not      *)
(* through the operators that model the code.                              *)
(***************************************************************************)
Returned == ret # <<>>

Range(s) == {s[i] : i \in DOMAIN s}

\* the call got as far as reading a metadata snapshot
GotMetadata ==
    /\ Returned
    /\ ret[1].status \in {"Ok", "NoTarget", "AmbiguousTarget",
                          "UnknownPackage", "NoPackageBelowRoot"}

\* the crate root the scope filter compares with
ExpectedRoot ==
    IF call.manifest_path # <<>>
    THEN SubSeq(call.manifest_path[1], 1, Len(call.manifest_path[1]) - 1)
    ELSE call.env.cwd_root[1]

ScopeIdx ==
    {i \in DOMAIN call.env.metadata :
        IF call.pkg # <<>>
        THEN call.env.metadata[i].name = call.pkg[1]
        ELSE /\ Len(call.env.metadata[i].manifest_path) >= Len(ExpectedRoot)
             /\ \A n \in 1..Len(ExpectedRoot) :
                    call.env.metadata[i].manifest_path[n] = ExpectedRoot[n]}

OfRequestedKind(t) == Range(t.kind) \cap Range(call.kind) # {}

\* (package index, target index) pairs surviving scope and kind filters
KindSurvivors ==
    {x \in (DOMAIN call.env.metadata) \X (1..(MaxTargets + 1)) :
        /\ x[1] \in ScopeIdx
        /\ x[2] \in DOMAIN call.env.metadata[x[1]].targets
        /\ OfRequestedKind(call.env.metadata[x[1]].targets[x[2]])}

NamedSurvivors ==
    {x \in KindSurvivors :
        call.target_name # <<>> =>
            call.env.metadata[x[1]].targets[x[2]].name = call.target_name[1]}

\* ... and the default-run filter too
Survivors ==
    {x \in NamedSurvivors :
        call.env.metadata[x[1]].default_run # <<>> =>
            call.env.metadata[x[1]].targets[x[2]].name
                = call.env.metadata[x[1]].default_run[1]}

AsCandidate(x) ==
    [package |-> call.env.metadata[x[1]].name,
     target |-> call.env.metadata[x[1]].targets[x[2]].name,
     kind |-> call.env.metadata[x[1]].targets[x[2]].kind]

ResolutionMatchesSurvivors ==
    /\ ret[1].status = "Ok" <=> Cardinality(Survivors) = 1
    /\ ret[1].status = "Ok" =>
           \E x \in Survivors : ret[1].target = <<AsCandidate(x)>>
    /\ ret[1].status = "NoTarget" <=> Cardinality(Survivors) = 0
    /\ ret[1].status = "AmbiguousTarget" <=> Cardinality(Survivors) >= 2
    /\ ret[1].status = "AmbiguousTarget" =>
           /\ Len(ret[1].candidates) = Cardinality(Survivors)
           /\ Range(ret[1].candidates) = {AsCandidate(x) : x \in Survivors}

\* C1 as stated: for every metadata snapshot, kinds, package filter and target
\* name, the call succeeds iff exactly one pair survives the filters, fails
\* with NoTarget iff none survives and with AmbiguousTarget, listing every
\* survivor, iff two or more survive.
C1_AsStated == GotMetadata => ResolutionMatchesSurvivors

\* C1 (amended): the same, whenever at least one package is in scope; with no
\* package in scope the call fails with the unknown-package / no-package error
\* and never with NoTarget.
C1_UniqueTargetIffOneSurvivor ==
    GotMetadata =>
        IF ScopeIdx # {}
        THEN ResolutionMatchesSurvivors
        ELSE ret[1].status = IF call.pkg # <<>> THEN "UnknownPackage"
                             ELSE "NoPackageBelowRoot"

C1_Witness ==
    /\ Returned
    /\ ret[1].status = "AmbiguousTarget"
    /\ Cardinality(ScopeIdx) = 1
    /\ call.target_name = <<>>
    /\ {c.target : c \in Range(ret[1].candidates)} = {"a", "b"}

\* the case of C2: the only package in scope has default-run "a" and exactly
\* the two targets a and b, both of a requested kind
DefaultRunCase ==
    /\ GotMetadata
    /\ \E i \in ScopeIdx :
          /\ ScopeIdx = {i}
          /\ call.env.metadata[i].default_run = <<"a">>
          /\ Len(call.env.metadata[i].targets) = 2
          /\ {t.name : t \in Range(call.env.metadata[i].targets)} = {"a", "b"}
          /\ \A t \in Range(call.env.metadata[i].targets) : OfRequestedKind(t)

\* C2: in that case resolution without a target name yields a, and resolution
\* with target_name = "b" yields NoTarget (never b).
C2_DefaultRunBeforeName ==
    DefaultRunCase =>
        /\ call.target_name = <<>> =>
               /\ ret[1].status = "Ok"
               /\ ret[1].target[1].target = "a"
        /\ call.target_name = <<"b">> =>
               /\ ret[1].status = "NoTarget"
               /\ ret[1].target = <<>>

C2_Witness ==
    /\ DefaultRunCase
    /\ call.target_name = <<"b">>
    /\ ret[1].status = "NoTarget"

\* survivors if the default-run restriction were not applied
DefaultRunDecided ==
    /\ Cardinality(ScopeIdx) = 1
    /\ Cardinality(NamedSurvivors) > 1

\* C3 as stated: a successful resolution is silent exactly when one package
\* was in scope and its default-run was the sole reason for uniqueness.
C3_AsStated ==
    (Returned /\ ret[1].status = "Ok") =>
        (ret[1].notice <=> ~DefaultRunDecided)

SingleDefaultRunPackage ==
    /\ Cardinality(ScopeIdx) = 1
    /\ \A i \in ScopeIdx : call.env.metadata[i].default_run # <<>>

\* C3 (amended): a successful resolution is silent exactly when one package
\* was in scope and that package declares a default-run, whether or not the
\* default-run was needed for uniqueness; otherwise the notice is emitted.
C3_NoticeUnlessSingleDefaultRun ==
    (Returned /\ ret[1].status = "Ok") =>
        (ret[1].notice <=> ~SingleDefaultRunPackage)

C3_Witness ==
    /\ Returned
    /\ ret[1].status = "Ok"
    /\ ~ret[1].notice
    /\ SingleDefaultRunPackage
    /\ ~DefaultRunDecided

(***************************************************************************)
(* Specification of build as a function of the request, the kind of the    *)
(* resolved target and the outcome of the cargo subprocess.                *)
(***************************************************************************)
\* requests that pass the command line parser
ParsedSelections == {x \in Selections : ~GroupConflict(x)}

BuildOpts ==
    {[dev |-> o.dev, profile |-> o.profile, package |-> o.package,
      bin |-> x.bin, example |-> x.example, test |-> x.test, bench |-> x.bench,
      unit_test |-> x.unit_test, manifest_path |-> o.manifest_path,
      features |-> o.features, no_default_features |-> o.no_default_features,
      release |-> FALSE, heaptrack |-> HeaptrackOptsDefault,
      trailing_arguments |-> <<>>] :
        x \in ParsedSelections,
        o \in [dev : BOOLEAN, profile : {None, Some("custom")},
               package : {None, Some("p")},
               manifest_path : {None, Some(<<"w", "Cargo.toml">>)},
               features : {None, Some("f")}, no_default_features : BOOLEAN]}

OtherMessage == [reason |-> "build-finished"]

MalformedLine == [reason |-> "malformed"]

ArtifactMessage(a) == [reason |-> "compiler-artifact", artifact |-> a]

\* cargo may fail after it has reported some artifacts
BuildEnvs ==
    {[status |-> "spawn_failed", stdout |-> <<>>],
     [status |-> "success", stdout |-> <<MalformedLine>>]}
    \cup {[status |-> st,
           stdout |-> [i \in DOMAIN l |-> ArtifactMessage(l[i])] \o <<OtherMessage>>] :
              st \in {"failure", "success"}, l \in ArtifactLists(MaxBuiltArtifacts)}

InitBuild ==
    /\ Idle
    /\ call \in [fn : {"build"}, opt : BuildOpts,
                 kind : {<<>>, <<"bin">>, <<"lib">>},
                 env : BuildEnvs]
    /\ ret = <<>>

CallBuild ==
    /\ call.fn = "build"
    /\ ret = <<>>
    /\ ret' = Some(build(call.opt, call.kind, call.env))
    /\ UNCHANGED call
    /\ IdleUnchanged

NextBuild == CallBuild

SpecBuild == InitBuild /\ [][NextBuild]_vars

\* the command line build passed to cargo, and the request it was built from
CargoHas(flag) == \E i \in DOMAIN ret[1].args : ret[1].args[i] = flag

BenchNoRun ==
    /\ Len(ret[1].args) >= 2
    /\ ret[1].args[1] = "bench"
    /\ ret[1].args[2] = "--no-run"

TestNoRun ==
    /\ Len(ret[1].args) >= 2
    /\ ret[1].args[1] = "test"
    /\ ret[1].args[2] = "--no-run"

GenericBuild == ret[1].args[1] = "build"

\* C5: bench --no-run exactly when a bench target is set and dev is false,
\* otherwise test --no-run when a unit-test target is set, otherwise build;
\* --profile exactly when a profile is named, --release exactly when no
\* profile is named, dev is false and no bench target is set; never both, and
\* never --release with the bench subcommand.
C5_BuildCommandLine ==
    Returned =>
        /\ BenchNoRun <=> (call.opt.bench # <<>> /\ ~call.opt.dev)
        /\ TestNoRun <=> (~(call.opt.bench # <<>> /\ ~call.opt.dev)
                          /\ call.opt.unit_test # <<>>)
        /\ GenericBuild <=> (~(call.opt.bench # <<>> /\ ~call.opt.dev)
                             /\ call.opt.unit_test = <<>>)
        /\ CargoHas("--profile") <=> call.opt.profile # <<>>
        /\ CargoHas("--release") <=> (/\ call.opt.profile = <<>>
                                      /\ ~call.opt.dev
                                      /\ call.opt.bench = <<>>)
        /\ ~(CargoHas("--profile") /\ CargoHas("--release"))
        /\ BenchNoRun => ~CargoHas("--release")

C5_Witness ==
    /\ Returned
    /\ call.opt.bench = <<"a">>
    /\ ~call.opt.dev
    /\ call.opt.profile = <<>>
    /\ BenchNoRun
    /\ ~CargoHas("--release")

(***************************************************************************)
(* Specification of workload as a function of the request and the          *)
(* artifacts of the build.                                                 *)
(***************************************************************************)
TrailingArgs == SeqUpTo({"x", "y"}, MaxArgs)

WorkloadOpts ==
    {[dev |-> d, profile |-> None, package |-> None,
      bin |-> x.bin, example |-> x.example, test |-> x.test, bench |-> x.bench,
      unit_test |-> x.unit_test, manifest_path |-> None,
      features |-> None, no_default_features |-> FALSE,
      release |-> FALSE, heaptrack |-> HeaptrackOptsDefault,
      trailing_arguments |-> t] :
        x \in ParsedSelections, d \in BOOLEAN, t \in TrailingArgs}

\* artifacts of every kind a selection can ask for
WorkloadArtifactLists ==
    ArtifactLists(MaxArtifacts)
    \cup {<<[target |-> [name |-> "a", kind |-> <<k>>],
             executable |-> Some(ExePaths[1]), debuginfo |-> d]>> :
             k \in {"example", "test", "bench"}, d \in DebugLevels}

InitWorkload ==
    /\ Idle
    /\ call \in [fn : {"workload"}, opt : WorkloadOpts,
                 artifacts : WorkloadArtifactLists]
    /\ ret = <<>>

CallWorkload ==
    /\ call.fn = "workload"
    /\ ret = <<>>
    /\ ret' = Some(workload(call.opt, call.artifacts))
    /\ UNCHANGED call
    /\ IdleUnchanged

NextWorkload == CallWorkload

SpecWorkload == InitWorkload /\ [][NextWorkload]_vars

\* the name and kinds the request asks for, read off the request
RequestedName ==
    IF call.opt.bin # <<>> THEN call.opt.bin
    ELSE IF call.opt.example # <<>> THEN call.opt.example
    ELSE IF call.opt.test # <<>> THEN call.opt.test
    ELSE IF call.opt.bench # <<>> THEN call.opt.bench
    ELSE IF call.opt.unit_test # <<>> THEN call.opt.unit_test[1]
    ELSE <<>>

RequestedKinds ==
    IF call.opt.bin # <<>> THEN {"bin"}
    ELSE IF call.opt.example # <<>> THEN {"example"}
    ELSE IF call.opt.test # <<>> THEN {"test"}
    ELSE IF call.opt.bench # <<>> THEN {"bench"}
    ELSE {"lib", "bin"}

MatchingArtifacts ==
    {i \in DOMAIN call.artifacts :
        /\ call.artifacts[i].executable # <<>>
        /\ RequestedName # <<>>
        /\ call.artifacts[i].target.name = RequestedName[1]
        /\ Range(call.artifacts[i].target.kind) \cap RequestedKinds # {}}

\* C4 as stated: workload succeeds only when exactly one artifact matches;
\* with zero or more than one matching artifact it returns an error.
C4_AsStated ==
    Returned =>
        /\ ret[1].status = "Ok" => Cardinality(MatchingArtifacts) = 1
        /\ Cardinality(MatchingArtifacts) # 1 => ret[1].status # "Ok"

IsFirstMatch(i) ==
    /\ i \in MatchingArtifacts
    /\ \A j \in MatchingArtifacts : i <= j

\* C4 (amended): workload succeeds exactly when at least one artifact
\* matches; with no matching artifact it returns an error, and with several
\* it returns, without an error, the executable of the first one in build
\* order.
C4_FirstMatchingArtifact ==
    Returned =>
        /\ ret[1].status = "Ok" <=> MatchingArtifacts # {}
        /\ MatchingArtifacts = {} => ret[1].command = <<>>
        /\ \A i \in MatchingArtifacts :
               IsFirstMatch(i) => ret[1].command[1] = call.artifacts[i].executable[1]

C4_Witness ==
    /\ Returned
    /\ Cardinality(MatchingArtifacts) = 2
    /\ ret[1].status = "Ok"
    /\ ret[1].command[1] = call.artifacts[1].executable[1]

ExpectedAdvisoryProfile ==
    IF call.opt.bin # <<>> \/ call.opt.example # <<>> \/ call.opt.unit_test # <<>>
    THEN "release" ELSE "bench"

\* C8: for a request with a matching artifact, the advisory is emitted
\* exactly when dev is not set and the debug-info level of the matched (first
\* matching) artifact is none; it names "release" for a bin, example or
\* unit-test and "bench" otherwise; and, advisory or not, the call succeeds
\* and returns the matched executable followed by the trailing arguments in
\* their original order.
C8_AdvisoryAndWorkload ==
    Returned =>
        \A i \in MatchingArtifacts :
            IsFirstMatch(i) =>
                /\ ret[1].status = "Ok"
                /\ ret[1].advisory # <<>> <=>
                       (~call.opt.dev /\ call.artifacts[i].debuginfo = "None")
                /\ ret[1].advisory # <<>> =>
                       ret[1].advisory[1] = ExpectedAdvisoryProfile
                /\ Len(ret[1].command) = 1 + Len(call.opt.trailing_arguments)
                /\ ret[1].command[1] = call.artifacts[i].executable[1]
                /\ \A n \in DOMAIN call.opt.trailing_arguments :
                       ret[1].command[n + 1] = call.opt.trailing_arguments[n]

C8_Witness ==
    /\ Returned
    /\ ret[1].status = "Ok"
    /\ ret[1].advisory = <<"bench">>
    /\ call.opt.trailing_arguments = <<"x", "y">>
    /\ ret[1].command = <<ExePaths[1], "x", "y">>

(***************************************************************************)
(* The invocation: main, from the command line to the profiler's exit.     *)
(***************************************************************************)
CommandLines ==
    {[dev |-> o.dev, profile |-> None, package |-> o.package,
      bin |-> x.bin, example |-> x.example, test |-> x.test, bench |-> x.bench,
      unit_test |-> x.unit_test, manifest_path |-> o.manifest_path,
      features |-> None, no_default_features |-> FALSE,
      release |-> FALSE, heaptrack |-> HeaptrackOptsDefault,
      trailing_arguments |-> o.trailing_arguments] :
        x \in Selections,
        o \in [dev : BOOLEAN, package : {None, Some("p")},
               manifest_path : {None, Some(<<"w", "Cargo.toml">>),
                                Some(<<"nodir", "Cargo.toml">>)},
               trailing_arguments : {<<>>, <<"x", "y">>}]}

InitMain ==
    /\ pc = "parse"
    /\ opt = <<>>
    /\ kind = <<>>
    /\ artifacts = <<>>
    /\ command = <<>>
    /\ spawned = <<>>
    /\ stderr = <<>>
    /\ error = ""
    /\ phases = <<>>
    /\ exits = [cargo |-> "none", heaptrack |-> "none"]
    /\ call \in [fn : {"main"}, argv : CommandLines]
    /\ ret = <<>>

\* an error returned from main: the process exits
Bail(e) ==
    /\ pc' = "exit"
    /\ error' = e

\* Cli::parse(), line 403
Parse ==
    /\ pc = "parse"
    /\ IF GroupConflict(call.argv)
       THEN Bail("UsageError") /\ UNCHANGED opt
       ELSE pc' = "select" /\ opt' = call.argv /\ UNCHANGED error
    /\ UNCHANGED <<kind, artifacts, command, spawned, stderr, phases, exits,
                   call, ret>>

\* lines 405-409
NoSelection(o) ==
    /\ o.bin = None
    /\ o.bench = None
    /\ o.example = None
    /\ o.test = None
    /\ o.unit_test = None

\* else if let Some(unit_test) = opt.unit_test, line 420
UnitTestNameOmitted(o) == o.unit_test = Some(None)

UnitTestRequested(o) == IsSome(o.unit_test)

MetadataCommandLine(manifest_path) ==
    <<"cargo", "metadata", "--no-deps">>
    \o (IF IsSome(manifest_path)
        THEN <<"--manifest-path", PathString(manifest_path[1])>> ELSE <<>>)

\* what a call of find_unique_target leaves behind besides its result
ResolveEffects(r) ==
    /\ phases' = phases \o <<"find_unique_target">>
                 \o (IF r.metadata_queried THEN <<"metadata_query">> ELSE <<>>)
                 \o (IF r.status \in {"Ok", "NoTarget", "AmbiguousTarget",
                                      "UnknownPackage", "NoPackageBelowRoot"}
                     THEN <<"target_selection">> ELSE <<>>)
    /\ spawned' = IF r.metadata_queried
                  THEN Append(spawned, MetadataCommandLine(opt.manifest_path))
                  ELSE spawned
    /\ stderr' = IF r.notice THEN Append(stderr, "automatically selected")
                 ELSE stderr

MainResolveEnvs ==
    ResolveEnvs(opt.manifest_path, None)
    \cup ResolveEnvs(opt.manifest_path, Some(<<"w">>))

\* lines 411-419
ResolveBin ==
    /\ pc = "select"
    /\ NoSelection(opt)
    /\ \E env \in MainResolveEnvs :
          LET r == find_unique_target(<<"bin">>, opt.package, opt.manifest_path,
                                      None, env)
          IN /\ ResolveEffects(r)
             /\ IF r.status = "Ok"
                THEN /\ opt' = [opt EXCEPT !.bin = Some(r.target[1].target),
                                           !.package = Some(r.target[1].package)]
                     /\ kind' = r.target[1].kind
                     /\ pc' = "build"
                     /\ UNCHANGED error
                ELSE Bail(r.status) /\ UNCHANGED <<opt, kind>>
    /\ UNCHANGED <<artifacts, command, exits, call, ret>>

\* lines 420-429
ResolveUnitTest ==
    /\ pc = "select"
    /\ ~NoSelection(opt)
    /\ UnitTestRequested(opt)
    /\ \E env \in MainResolveEnvs :
          LET r == find_unique_target(<<"bin", "lib">>, opt.package,
                                      opt.manifest_path, opt.unit_test[1], env)
          IN /\ ResolveEffects(r)
             /\ IF r.status = "Ok"
                THEN /\ opt' = [opt EXCEPT
                                   !.unit_test = Some(Some(r.target[1].target)),
                                   !.package = Some(r.target[1].package)]
                     /\ kind' = r.target[1].kind
                     /\ pc' = "build"
                     /\ UNCHANGED error
                ELSE Bail(r.status) /\ UNCHANGED <<opt, kind>>
    /\ UNCHANGED <<artifacts, command, exits, call, ret>>

\* lines 430-432
SkipResolve ==
    /\ pc = "select"
    /\ ~NoSelection(opt)
    /\ ~UnitTestRequested(opt)
    /\ kind' = <<>>
    /\ pc' = "build"
    /\ UNCHANGED <<opt, artifacts, command, spawned, stderr, error, phases,
                   exits, call, ret>>

\* line 434
Build ==
    /\ pc = "build"
    /\ \E env \in BuildEnvs :
          LET r == build(opt, kind, env)
          IN /\ spawned' = Append(spawned, <<"cargo">> \o r.args)
             /\ exits' = [exits EXCEPT !.cargo = env.status]
             /\ IF r.status = "Ok"
                THEN /\ artifacts' = r.artifacts
                     /\ pc' = "workload"
                     /\ UNCHANGED error
                ELSE Bail(r.status) /\ UNCHANGED artifacts
    /\ phases' = Append(phases, "build")
    /\ UNCHANGED <<opt, kind, command, stderr, call, ret>>

\* line 435
Workload ==
    /\ pc = "workload"
    /\ LET r == workload(opt, artifacts)
       IN /\ stderr' = IF IsSome(r.advisory)
                       THEN Append(stderr, "profiling without debuginfo")
                       ELSE stderr
          /\ IF r.status = "Ok"
             THEN /\ command' = r.command
                  /\ pc' = "heaptrack"
                  /\ UNCHANGED error
             ELSE Bail(r.status) /\ UNCHANGED command
    /\ phases' = Append(phases, "workload")
    /\ UNCHANGED <<opt, kind, artifacts, spawned, exits, call, ret>>

\* lines 437-438
RunHeaptrack ==
    /\ pc = "heaptrack"
    /\ \E outcome \in {"spawn_failed", "failure", "success"} :
          /\ exits' = [exits EXCEPT !.heaptrack = outcome]
          /\ error' = run_heaptrack(outcome)
    /\ spawned' = Append(spawned,
                         <<"heaptrack">>
                         \o HeaptrackArgs(Head(command), Tail(command), opt.heaptrack))
    /\ phases' = Append(phases, "run_heaptrack")
    /\ pc' = "exit"
    /\ UNCHANGED <<opt, kind, artifacts, command, stderr, call, ret>>

Next ==
    \/ Parse
    \/ ResolveBin
    \/ ResolveUnitTest
    \/ SkipResolve
    \/ Build
    \/ Workload
    \/ RunHeaptrack

Spec == InitMain /\ [][Next]_vars

(***************************************************************************)
(* Properties of the invocation (checked under Spec).                      *)
(***************************************************************************)
Launched(program, subcommands) ==
    \E i \in DOMAIN spawned :
        /\ spawned[i][1] = program
        /\ subcommands # {} => spawned[i][2] \in subcommands

MetadataLaunched == Launched("cargo", {"metadata"})

BuildLaunched == Launched("cargo", {"build", "test", "bench"})

ProfilerLaunched == Launched("heaptrack", {})

SetIn(o) ==
    {f \in {"bin", "example", "test", "bench", "unit_test"} : o[f] # <<>>}

\* C6: the request main holds never has two of bin, example, test, bench and
\* unit-test set, also after main's rewriting; a command line that sets two
\* is rejected, with no request built and no subprocess launched.
C6_AtMostOneSelection ==
    /\ opt # <<>> => Cardinality(SetIn(opt)) <= 1
    /\ (Cardinality(SetIn(call.argv)) > 1 /\ pc # "parse") =>
           /\ pc = "exit"
           /\ error = "UsageError"
           /\ opt = <<>>
           /\ spawned = <<>>

C6_Witness ==
    /\ pc = "workload"
    /\ SetIn(call.argv) = {}
    /\ SetIn(opt) = {"bin"}
    /\ BuildLaunched

PhaseRank(p) ==
    CASE p = "find_unique_target" -> 1
      [] p = "metadata_query" -> 2
      [] p = "target_selection" -> 3
      [] p = "build" -> 4
      [] p = "workload" -> 5
      [] p = "run_heaptrack" -> 6

ResolutionErrors ==
    {"ManifestPathNoParent", "InvalidManifestPath", "ManifestNotFound",
     "MetadataUnavailable", "UnknownPackage", "NoPackageBelowRoot", "NoTarget",
     "AmbiguousTarget"}

\* C7: the steps run in the order metadata query, target selection, build,
\* workload extraction, profiler launch, none twice; an error ends the
\* invocation; after a failed resolution no build is launched; the profiler is
\* launched only after cargo exited successfully and workload returned a
\* command; and a failing profiler yields ProfilerFailed as the last thing
\* that happens.
C7_PhasesInOrderAndAbort ==
    /\ \A i, j \in DOMAIN phases :
           i < j => PhaseRank(phases[i]) < PhaseRank(phases[j])
    /\ error # "" => pc = "exit"
    /\ pc = "exit" => ~ENABLED Next
    /\ exits.cargo \in {"spawn_failed", "failure"} => error # ""
    /\ error \in ResolutionErrors =>
           /\ ~BuildLaunched
           /\ \A i \in DOMAIN phases : phases[i] # "build"
    /\ (\E i \in DOMAIN phases : phases[i] = "workload") => exits.cargo = "success"
    /\ ProfilerLaunched =>
           /\ exits.cargo = "success"
           /\ command # <<>>
           /\ \E i \in DOMAIN artifacts : artifacts[i].executable = <<command[1]>>
           /\ phases[Len(phases) - 1] = "workload"
    /\ exits.heaptrack = "failure" =>
           /\ error = "ProfilerFailed"
           /\ pc = "exit"
           /\ spawned[Len(spawned)][1] = "heaptrack"
           /\ phases[Len(phases)] = "run_heaptrack"

C7_Witness ==
    /\ pc = "exit"
    /\ error = "ProfilerFailed"
    /\ exits.heaptrack = "failure"
    /\ phases = <<"find_unique_target", "metadata_query", "target_selection",
                  "build", "workload", "run_heaptrack">>

ResolutionRan == \E i \in DOMAIN phases : phases[i] = "find_unique_target"

ConfigurationErrors ==
    {"ManifestNotFound", "InvalidManifestPath", "ManifestPathNoParent",
     "UnknownPackage", "NoSelectionCriteria", "UsageError"}

\* C9 as stated: an invocation that ends in a configuration error has
\* launched no subprocess at all.
C9_AsStated ==
    (pc = "exit" /\ error \in ConfigurationErrors) => spawned = <<>>

\* C9 (amended): an invocation that ends in a configuration error has
\* launched neither the build nor the profiler; for a missing manifest, an
\* invalid manifest path and conflicting selection options nothing at all has
\* been launched, while an unknown package is detected from the answer of the
\* metadata query, the one subprocess launched by then; the
\* no-selection-criteria error does not arise in an invocation, and the
\* manifest and package errors only where target resolution runs.
C9_ConfigErrorsBeforeBuild ==
    (pc = "exit" /\ error \in ConfigurationErrors) =>
        /\ ~BuildLaunched
        /\ ~ProfilerLaunched
        /\ error # "NoSelectionCriteria"
        /\ error # "UsageError" => ResolutionRan
        /\ IF error = "UnknownPackage"
           THEN Len(spawned) = 1 /\ MetadataLaunched
           ELSE spawned = <<>>

C9_Witness ==
    /\ pc = "exit"
    /\ error = "InvalidManifestPath"
    /\ spawned = <<>>
    /\ call.argv.unit_test = <<<<"a">>>>

PastSelection == opt # <<>> /\ pc # "select"

\* C10 as stated: target resolution runs exactly when no selection option is
\* given or unit-test is given without a name.
C10_AsStated ==
    PastSelection =>
        (ResolutionRan <=> (SetIn(call.argv) = {} \/ call.argv.unit_test = <<<<>>>>))

\* C10 (amended): target resolution (and with it the metadata query) runs
\* exactly when no selection option is given or unit-test is given, with or
\* without a name; it does not run for an explicit bin, example, test or
\* bench.
C10_ResolutionWhenUnderSpecified ==
    /\ PastSelection =>
           (ResolutionRan <=> (SetIn(call.argv) = {} \/ call.argv.unit_test # <<>>))
    /\ MetadataLaunched => ResolutionRan

C10_Witness ==
    /\ PastSelection
    /\ call.argv.unit_test = <<<<"a">>>>
    /\ ResolutionRan
    /\ MetadataLaunched

====
